---- MODULE Spec2Model ----
(***************************************************************************)
(* A model of nodeconductor-paypal: the Payment state machine              *)
(* (models.py), the PayPal backend adapter (backend.py) and the periodic   *)
(* background tasks (tasks.py).                                            *)
(*                                                                         *)
(* Time is counted in whole weeks.  A URL is a record of its path and of   *)
(* its query string, the query string being the sequence of its            *)
(* key=value pairs in the order they are written.                          *)
(***************************************************************************)
EXTENDS Integers, Sequences, FiniteSets, TLC

(***************************************************************************)
(* Bounds of the model.                                                    *)
(***************************************************************************)
MaxPayments == 2
MaxTime == 2
MaxInvoices == 3
MaxTriggers == 2

PaymentIds == 1..MaxPayments
InvoiceIds == 1..MaxInvoices

(***************************************************************************)
(* Payment.States and Payment.STATE_CHOICES (models.py).                   *)
(***************************************************************************)
INIT == 0
CREATED == 1
APPROVED == 2
CANCELLED == 3
ERRED == 4

States == {INIT, CREATED, APPROVED, CANCELLED, ERRED}

STATE_CHOICES ==
    { <<INIT, "Initial">>, <<CREATED, "Created">>,
      <<APPROVED, "Approved">>, <<ERRED, "Erred">> }

(***************************************************************************)
(* django_fsm's @transition(field, source, target): the decorated method   *)
(* raises TransitionNotAllowed and leaves the field alone when the         *)
(* instance's current state is not one of the sources; otherwise the body  *)
(* runs and the field is set to the target.  source='*' is every state.    *)
(***************************************************************************)
transition(s, sources, target) ==
    IF s \in sources
    THEN [ok |-> TRUE, state |-> target, error |-> "none"]
    ELSE [ok |-> FALSE, state |-> s, error |-> "TransitionNotAllowed"]

set_created_any(s) == transition(s, States, CREATED)

set_created(s) == transition(s, {INIT}, CREATED)

set_approved(s) == transition(s, {CREATED}, APPROVED)

set_cancelled_any(s) == transition(s, States, CANCELLED)

set_cancelled(s) == transition(s, {CREATED}, CANCELLED)

set_erred_from_init(s) == transition(s, {INIT}, ERRED)

set_erred(s) == transition(s, States, ERRED)

(***************************************************************************)
(* Values of the backend adapter.                                          *)
(***************************************************************************)
None == "None"

EmptyUrl == [path |-> "", query |-> <<>>]

Param(k, v) == [k |-> k, v |-> v]

ApproveUrl(query) == [path |-> "https://paypal.example/approve", query |-> query]

Link(rel, href) == [rel |-> rel, href |-> href]

SelfLink == Link("self", [path |-> "https://paypal.example/payment", query |-> <<>>])

\* The link lists a processor may return with a created payment or agreement.
LinkLists ==
    { <<SelfLink, Link("approval_url", ApproveUrl(<<Param("token", "EC-1"), Param("foo", "bar")>>))>>,
      <<Link("approval_url", ApproveUrl(<<Param("foo", "bar"), Param("token", "EC-2")>>)), SelfLink>>,
      <<SelfLink, Link("approval_url", ApproveUrl(<<Param("token", ""), Param("token", "EC-3")>>))>>,
      <<SelfLink, Link("approval_url", ApproveUrl(<<Param("foo", "bar")>>))>>,
      <<SelfLink, Link("approval_url", ApproveUrl(<<Param("token", "")>>))>>,
      <<SelfLink>> }

\* A call of the adapter that returned; the fields it does not return are blank.
Returned ==
    [ok |-> TRUE, error |-> "none", message |-> "", value |-> None,
     payment_id |-> None, approval_url |-> EmptyUrl, token |-> None]

\* raise PayPalError(message)
PayPalError(message) ==
    [ok |-> FALSE, error |-> "PayPalError", message |-> message, value |-> None,
     payment_id |-> None, approval_url |-> EmptyUrl, token |-> None]

\* return PaypalPayment(payment_id, approval_url, token)
PaypalPayment(payment_id, approval_url, token) ==
    [ok |-> TRUE, error |-> "none", message |-> "", value |-> None,
     payment_id |-> payment_id, approval_url |-> approval_url, token |-> token]

(***************************************************************************)
(* PaypalBackend._find_approval_url: the href of the first link whose rel  *)
(* is 'approval_url'.                                                      *)
(***************************************************************************)
_find_approval_url(links) ==
    LET hits == SelectSeq(links, LAMBDA l : l.rel = "approval_url")
    IN  IF hits = <<>>
        THEN PayPalError("Approval URL is not found")
        ELSE [Returned EXCEPT !.approval_url = hits[1].href]

\* urlparse.urlparse(url).query
urlparse_query(url) == url.query

\* urlparse.parse_qs(query).get(key): the values of key, in order, blank
\* values dropped (keep_blank_values is off); <<>> stands for a missing key.
parse_qs_get(query, key) ==
    LET kept == SelectSeq(query, LAMBDA p : p.k = key /\ p.v # "")
    IN  [i \in 1..Len(kept) |-> kept[i].v]

\* A _find_token that keeps blank values (parse_qs with keep_blank_values):
\* the list of a present key is never empty, and its first value may be ''.
_find_token_keep_blank(approval_url) ==
    LET query == urlparse_query(approval_url)
        token == SelectSeq(query, LAMBDA p : p.k = "token")
    IN  IF token = <<>>
        THEN PayPalError("Unable to parse token from approval_url")
        ELSE [Returned EXCEPT !.token = token[1].v]

\* A _find_token that takes the first query parameter whatever its name.
_find_token_first_param(approval_url) ==
    LET query == urlparse_query(approval_url)
    IN  IF query = <<>>
        THEN PayPalError("Unable to parse token from approval_url")
        ELSE [Returned EXCEPT !.token = query[1].v]

(***************************************************************************)
(* PaypalBackend._find_token                                               *)
(***************************************************************************)
_find_token(approval_url) ==
    LET token == parse_qs_get(urlparse_query(approval_url), "token")
    IN  IF token = <<>>
        THEN PayPalError("Unable to parse token from approval_url")
        ELSE [Returned EXCEPT !.token = token[1]]

(***************************************************************************)
(* What the processor answers to payment.create(): it creates the payment  *)
(* (True, with an id and links), rejects it (False, with payment.error),   *)
(* or the connection fails (paypal.exceptions.ConnectionError).            *)
(***************************************************************************)
CreateResponses ==
    { [create |-> "ok", id |-> "PAY-1", links |-> l] : l \in LinkLists }
    \cup { [create |-> "fail", id |-> None, links |-> <<>>],
           [create |-> "conn", id |-> None, links |-> <<>>] }

(***************************************************************************)
(* PaypalBackend.make_payment                                              *)
(***************************************************************************)
make_payment(resp) ==
    IF resp.create = "conn" THEN PayPalError("ConnectionError")
    ELSE IF resp.create = "fail" THEN PayPalError("payment.error")
    ELSE LET url == _find_approval_url(resp.links)
         IN  IF ~url.ok THEN url
             ELSE LET tok == _find_token(url.approval_url)
                  IN  IF ~tok.ok THEN tok
                      ELSE PaypalPayment(resp.id, url.approval_url, tok.token)

(***************************************************************************)
(* What the processor answers to Payment.find(id) and payment.execute().   *)
(***************************************************************************)
ExecuteResponses ==
    { [find |-> "found", execute |-> "ok"],
      [find |-> "found", execute |-> "fail"],
      [find |-> "found", execute |-> "conn"],
      [find |-> "empty", execute |-> "none"],
      [find |-> "conn", execute |-> "none"] }

\* An approve_payment with the test of execute()'s result inverted.
approve_payment_inverted(resp) ==
    IF resp.find = "conn" THEN PayPalError("ConnectionError")
    ELSE IF resp.find = "empty" THEN PayPalError("Payment not found")
    ELSE IF resp.execute = "conn" THEN PayPalError("ConnectionError")
    ELSE IF resp.execute = "fail" THEN Returned
    ELSE PayPalError("payment.error")

(***************************************************************************)
(* PaypalBackend.approve_payment                                           *)
(***************************************************************************)
approve_payment(resp) ==
    IF resp.find = "conn" THEN PayPalError("ConnectionError")
    ELSE IF resp.find = "empty" THEN PayPalError("Payment not found")
    ELSE IF resp.execute = "conn" THEN PayPalError("ConnectionError")
    ELSE IF resp.execute = "ok" THEN Returned
    ELSE PayPalError("payment.error")


(***************************************************************************)
(* Billing agreements.  An agreement as BillingAgreement.find returns it,  *)
(* and the requests the adapter sends to the processor.                    *)
(***************************************************************************)
AgreementIds == {"I-1", "I-2"}

Agreement(agreement_id) == [id |-> agreement_id]

\* The empty result the processor returns for an id it does not know.
NoAgreement == [id |-> None]

Request(req, id) ==
    [req |-> req, id |-> id, note |-> "", start_date |-> 0, end_date |-> 0]

\* return value
Return(value) == [Returned EXCEPT !.value = value]

\* What the processor answers to BillingAgreement.find(agreement_id): the
\* agreement, an empty result, or the connection fails.
FindResponses == {"found", "empty", "conn"}

\* A get_agreement that hands the processor's answer on unchecked.
get_agreement_unchecked(agreement_id, find) ==
    IF find = "conn" THEN PayPalError("ConnectionError")
    ELSE IF find = "empty" THEN Return(NoAgreement)
    ELSE Return(Agreement(agreement_id))

(***************************************************************************)
(* PaypalBackend.get_agreement                                             *)
(***************************************************************************)
get_agreement(agreement_id, find) ==
    IF find = "conn" THEN PayPalError("ConnectionError")
    ELSE IF find = "empty" THEN PayPalError("Agreement not found")
    ELSE Return(Agreement(agreement_id))

\* What the processor answers to agreement.cancel(): True, False (with
\* agreement.error), or the connection fails; "none" when it is not asked.
CancelResponses == {"ok", "fail", "conn"}

CancelRequest(agreement_id) ==
    [Request("agreement.cancel", agreement_id)
        EXCEPT !.note = "Canceling the agreement by application"]

\* A cancel_agreement that cancels without waiting for the lookup's result.
cancel_agreement_blind(agreement_id, find, cancel) ==
    [sent |-> <<Request("BillingAgreement.find", agreement_id),
                CancelRequest(agreement_id)>>,
     result |-> IF cancel = "ok" THEN Return(TRUE)
                ELSE PayPalError("agreement.error")]

(***************************************************************************)
(* PaypalBackend.cancel_agreement: the requests sent and how it ends.      *)
(***************************************************************************)
cancel_agreement(agreement_id, find, cancel) ==
    LET agreement == get_agreement(agreement_id, find)
        lookup == <<Request("BillingAgreement.find", agreement_id)>>
    IN  IF ~agreement.ok
        THEN [sent |-> lookup, result |-> agreement]
        ELSE [sent |-> Append(lookup, CancelRequest(agreement.value.id)),
              result |-> IF cancel = "conn" THEN PayPalError("ConnectionError")
                         ELSE IF cancel = "ok" THEN Return(TRUE)
                         ELSE PayPalError("agreement.error")]

(***************************************************************************)
(* What reading an attribute the processor's answer does not have comes    *)
(* to: a resource that carries only an error has no id and no transaction  *)
(* list, and the SDK either answers None for them or raises                *)
(* AttributeError.                                                         *)
(***************************************************************************)
MissingAttribute == {"none", "raise"}

\* An exception of another class than PayPalError leaving the adapter.
Raise(error, message) == [PayPalError(message) EXCEPT !.error = error]

(***************************************************************************)
(* What the processor answers to plan.create() and plan.activate(): True,  *)
(* False (with plan.error), or the connection fails; activate is "none"    *)
(* when activate() is not called.                                          *)
(***************************************************************************)
PlanResponses ==
    { [create |-> "ok", activate |-> a, id |-> "P-1"] : a \in {"ok", "fail", "conn"} }
    \cup { [create |-> c, activate |-> "none", id |-> None] : c \in {"fail", "conn"} }

\* A create_plan that returns the id whatever plan.activate() answered.
create_plan_unactivated(resp) ==
    LET created == <<Request("plan.create", None)>>
        activated == Append(created, Request("plan.activate", resp.id))
    IN  IF resp.create = "conn"
        THEN [sent |-> created, result |-> PayPalError("ConnectionError")]
        ELSE IF resp.create # "ok"
        THEN [sent |-> created, result |-> PayPalError("plan.error")]
        ELSE IF resp.activate = "conn"
        THEN [sent |-> activated, result |-> PayPalError("ConnectionError")]
        ELSE [sent |-> activated, result |-> Return(resp.id)]

(***************************************************************************)
(* PaypalBackend.create_plan: plan.create() and plan.activate()            *)
(***************************************************************************)
create_plan(resp) ==
    LET created == <<Request("plan.create", None)>>
        activated == Append(created, Request("plan.activate", resp.id))
    IN  IF resp.create = "conn"
        THEN [sent |-> created, result |-> PayPalError("ConnectionError")]
        ELSE IF resp.create # "ok"
        THEN [sent |-> created, result |-> PayPalError("plan.error")]
        ELSE IF resp.activate = "conn"
        THEN [sent |-> activated, result |-> PayPalError("ConnectionError")]
        ELSE IF resp.activate = "ok"
        THEN [sent |-> activated, result |-> Return(resp.id)]
        ELSE [sent |-> activated, result |-> PayPalError("plan.error")]

(***************************************************************************)
(* PaypalBackend.create_agreement: the answers of agreement.create() are   *)
(* those of payment.create().                                              *)
(***************************************************************************)
create_agreement(resp) ==
    IF resp.create = "conn" THEN PayPalError("ConnectionError")
    ELSE IF resp.create = "fail" THEN PayPalError("agreement.error")
    ELSE LET url == _find_approval_url(resp.links)
         IN  IF ~url.ok THEN url
             ELSE LET tok == _find_token(url.approval_url)
                  IN  IF ~tok.ok THEN tok
                      ELSE [Returned EXCEPT !.approval_url = url.approval_url,
                                            !.token = tok.token]

(***************************************************************************)
(* What the processor answers to BillingAgreement.execute(token): the      *)
(* executed agreement, an empty result, a resource that carries the        *)
(* processor's error (the execution was rejected), or the connection       *)
(* fails.                                                                  *)
(***************************************************************************)
ExecuteAgreementResponses ==
    { [execute |-> "agreement", id |-> "I-1", missing |-> "none"],
      [execute |-> "empty", id |-> None, missing |-> "none"],
      [execute |-> "conn", id |-> None, missing |-> "none"] }
    \cup { [execute |-> "error", id |-> None, missing |-> m] : m \in MissingAttribute }

(***************************************************************************)
(* PaypalBackend.execute_agreement                                         *)
(***************************************************************************)
execute_agreement(resp) ==
    IF resp.execute = "conn" THEN PayPalError("ConnectionError")
    ELSE IF resp.execute = "empty" THEN PayPalError("Can not execute agreement")
    ELSE IF resp.execute = "agreement" THEN Return(resp.id)
    ELSE IF resp.missing = "raise" THEN Raise("AttributeError", "id")
    ELSE Return(None)

(***************************************************************************)
(* Dates of a transaction search, in half days; strftime('%Y-%m-%d') keeps *)
(* the day of a date and drops the time of day.                            *)
(***************************************************************************)
MaxDate == 6

Dates == 0..MaxDate

DAY == 2

NoEnd == -1

strftime_date(t) == t \div DAY

\* The adjustment with <= in place of <.
adjust_end_date_lte(start_date, end_date) ==
    IF end_date - start_date <= DAY THEN end_date + DAY ELSE end_date

\* The adjustment made only when the two dates are the same.
adjust_end_date_equal(start_date, end_date) ==
    IF end_date = start_date THEN end_date + DAY ELSE end_date

\* if end_date - start_date < datetime.timedelta(days=1): end_date += one day
adjust_end_date(start_date, end_date) ==
    IF end_date - start_date < DAY THEN end_date + DAY ELSE end_date

\* if not end_date: end_date = timezone.now()
default_end_date(end_date, clock) == IF end_date = NoEnd THEN clock ELSE end_date

(***************************************************************************)
(* The transactions of an agreement as the processor lists them, and the   *)
(* conversions dateutil.parser.parse and decimal.Decimal of their          *)
(* time_stamp and amount.value strings (to half days and to cents).        *)
(***************************************************************************)
MaxTxs == 3

Transactions ==
    { [status |-> "Completed", time_stamp |-> "1970-01-01T00:00:00Z",
       transaction_id |-> "T-1", amount |-> [value |-> "10.00"],
       payer_email |-> "a@example.com"],
      [status |-> "Pending", time_stamp |-> "1970-01-02T12:00:00Z",
       transaction_id |-> "T-2", amount |-> [value |-> "5.50"],
       payer_email |-> "b@example.com"],
      [status |-> "Completed", time_stamp |-> "1970-01-02T12:00:00Z",
       transaction_id |-> "T-3", amount |-> [value |-> "5.50"],
       payer_email |-> "b@example.com"] }

dateutil_parse(time_stamp) ==
    CASE time_stamp = "1970-01-01T00:00:00Z" -> 0
      [] time_stamp = "1970-01-02T12:00:00Z" -> 3

Decimal(value) ==
    CASE value = "10.00" -> 1000
      [] value = "5.50" -> 550

TransactionLists == UNION { [1..n -> Transactions] : n \in 0..MaxTxs }

(***************************************************************************)
(* What the processor answers to agreement.search_transactions: a result   *)
(* with a transaction list or without one, a resource that carries the     *)
(* processor's error (the search was rejected), or the connection fails.   *)
(***************************************************************************)
SearchResponses ==
    { [search |-> "result", has_list |-> TRUE, txs |-> l, missing |-> "none"] :
        l \in TransactionLists }
    \cup { [search |-> "result", has_list |-> FALSE, txs |-> <<>>, missing |-> "none"],
           [search |-> "conn", has_list |-> FALSE, txs |-> <<>>, missing |-> "none"] }
    \cup { [search |-> "error", has_list |-> FALSE, txs |-> <<>>, missing |-> m] :
            m \in MissingAttribute }

\* The loop over txs with the status test left out.
completed_all(txs) ==
    [i \in 1..Len(txs) |->
        [time_stamp |-> dateutil_parse(txs[i].time_stamp),
         transaction_id |-> txs[i].transaction_id,
         amount |-> Decimal(txs[i].amount.value),
         payer_email |-> txs[i].payer_email]]

\* for tx in txs: if tx.status != 'Completed': continue; results.append({...})
completed(txs) ==
    LET kept == SelectSeq(txs, LAMBDA tx : ~(tx.status # "Completed"))
    IN  [i \in 1..Len(kept) |->
            [time_stamp |-> dateutil_parse(kept[i].time_stamp),
             transaction_id |-> kept[i].transaction_id,
             amount |-> Decimal(kept[i].amount.value),
             payer_email |-> kept[i].payer_email]]

(***************************************************************************)
(* PaypalBackend.get_agreement_transactions: the dates it works out, the   *)
(* requests sent and how it ends.                                          *)
(***************************************************************************)
get_agreement_transactions(agreement_id, start_date, end_date, clock, find, search) ==
    LET effective_end == adjust_end_date(start_date, default_end_date(end_date, clock))
        formatted_start_date == strftime_date(start_date)
        formatted_end_date == strftime_date(effective_end)
        agreement == get_agreement(agreement_id, find)
        lookup == <<Request("BillingAgreement.find", agreement_id)>>
        searched ==
            Append(lookup, [Request("agreement.search_transactions", agreement_id)
                              EXCEPT !.start_date = formatted_start_date,
                                     !.end_date = formatted_end_date])
        dates == [start_date |-> start_date, end_date |-> effective_end]
    IN  IF ~agreement.ok
        THEN [sent |-> lookup, dates |-> dates, result |-> agreement]
        ELSE [sent |-> searched, dates |-> dates, result |->
                IF search.search = "conn" THEN PayPalError("ConnectionError")
                ELSE IF search.search = "error" /\ search.missing = "raise"
                THEN Raise("AttributeError", "agreement_transaction_list")
                ELSE IF search.search = "error" \/ ~search.has_list \/ search.txs = <<>>
                THEN Return(<<>>)
                ELSE Return(completed(search.txs))]

(***************************************************************************)
(* tasks.py: DebitCustomers.run.  A resource is shared or not (the filter  *)
(* on its service settings); its get_cost returns the cost, raises         *)
(* NotImplementedError or raises another exception; debit_account of its   *)
(* customer returns or raises.                                             *)
(***************************************************************************)
MaxResources == 3

Resources ==
    [shared : BOOLEAN,
     get_cost : {"cost", "NotImplementedError", "Exception"},
     debit_account : {"ok", "Exception"}]

ResourceLists == UNION { [1..n -> Resources] : n \in 0..MaxResources }

(***************************************************************************)
(* The loop of DebitCustomers.run from the i-th resource on: only          *)
(* NotImplementedError is caught (continue); any other exception of        *)
(* get_cost or debit_account leaves the loop and the run.                  *)
(***************************************************************************)
RECURSIVE DebitCustomers_loop(_, _, _)
DebitCustomers_loop(resources, i, run) ==
    IF i > Len(resources) THEN run
    ELSE LET resource == resources[i]
         IN  IF ~resource.shared
             THEN DebitCustomers_loop(resources, i + 1, run)
             ELSE IF resource.get_cost = "NotImplementedError"
             THEN DebitCustomers_loop(resources, i + 1,
                                      [run EXCEPT !.skipped = Append(@, i)])
             ELSE IF resource.get_cost = "Exception"
             THEN [run EXCEPT !.raised = "Exception"]
             ELSE IF resource.debit_account = "Exception"
             THEN [run EXCEPT !.raised = "Exception"]
             ELSE DebitCustomers_loop(resources, i + 1,
                                      [run EXCEPT !.debited = Append(@, i)])

(***************************************************************************)
(* models.py: Invoice.generate_pdf on an invoice whose pdf field names     *)
(* `prior`, when the rendering reports err or not.  self.pdf.delete()      *)
(* removes the prior document from the storage; self.pdf.save(name,        *)
(* content) stores what was rendered, sets the field and saves the         *)
(* instance, all before pdf.err is looked at; pdf.err is logged.           *)
(***************************************************************************)
MaxRenders == 2

generate_pdf(i, prior, err) ==
    LET document == [invoice |-> i, rendering |-> prior.rendering + 1, valid |-> ~err]
    IN  [invoice |-> i, err |-> err, logged |-> err, raised |-> FALSE,
         prior |-> prior, document |-> document]

(***************************************************************************)
(* tasks.py: the lifetime of a stale payment, timedelta(weeks=1), and the  *)
(* filter of PaymentsCleanUp.run, state=CREATED and                        *)
(* created <= timezone.now() - timespan.                                   *)
(***************************************************************************)
STALE_PAYMENTS_LIFETIME == 1

\* The filter without its state condition.
is_stale_any_state(row, t) == row.created <= t - STALE_PAYMENTS_LIFETIME

\* The filter with created__lt in place of created__lte.
is_stale_lt(row, t) ==
    row.state = CREATED /\ row.created < t - STALE_PAYMENTS_LIFETIME

is_stale(row, t) ==
    row.state = CREATED /\ row.created <= t - STALE_PAYMENTS_LIFETIME

\* A SendInvoices selection that takes every invoice.
new_invoices_all(backend_ids) == DOMAIN backend_ids

\* Invoice.objects.filter(backend_id='')
new_invoices(backend_ids) == { i \in DOMAIN backend_ids : backend_ids[i] = "" }

(***************************************************************************)
(* The state.                                                              *)
(*   used, store   the payment ids handed out so far, and the ids whose    *)
(*                 row is in the table                                     *)
(*   payment       the rows of Payment                                     *)
(*   hist          per payment, the states its row has held, in order      *)
(*   outcome       per payment, how the backend calls made for it ended    *)
(*   now           the clock                                               *)
(*   attempt       the last call of a transition method and how it ended   *)
(*   inv_backend_id, triggered, pending, selected                          *)
(*                 per invoice its backend_id, how often its creation was  *)
(*                 triggered, how many triggered creations are still       *)
(*                 running; and the invoices the last dispatch run took    *)
(*   actor         the requests that work on their own copy of a payment   *)
(*   call          the last call of the backend adapter: its arguments,    *)
(*                 what the processor answered, the requests sent to the   *)
(*                 processor and how the call ended                        *)
(*   debit         the last run of DebitCustomers                          *)
(*   invoice_pdf, storage, render                                          *)
(*                 per invoice the document its pdf field names, the       *)
(*                 documents in the file storage, and the last             *)
(*                 generate_pdf call                                       *)
(***************************************************************************)
VARIABLES used, store, payment, hist, outcome, now, attempt,
          inv_backend_id, triggered, pending, selected, actor,
          call, debit, invoice_pdf, storage, render

vars == <<used, store, payment, hist, outcome, now, attempt,
          inv_backend_id, triggered, pending, selected, actor,
          call, debit, invoice_pdf, storage, render>>

payment_vars == <<used, store, payment, hist, outcome, now>>

invoice_vars == <<inv_backend_id, triggered, pending, selected>>

task_vars == <<call, debit, invoice_pdf, storage, render>>

Actors == {"a1", "a2"}

\* A Payment as its constructor leaves it (the field defaults of models.py).
NewRow(t) ==
    [state |-> INIT, backend_id |-> None, token |-> None,
     approval_url |-> EmptyUrl, created |-> t]

NoAttempt == [name |-> "none", p |-> 0, from |-> INIT, ok |-> TRUE, error |-> "none"]

\* Per backend call: what the processor answered ("success", "failure") and
\* how the adapter's call ended ("ok", "error"); "none" before the call.
NoOutcome ==
    [processor_start |-> "none", start |-> "none",
     processor_approve |-> "none", approve |-> "none"]

Idle == [pc |-> "idle", p |-> 0, op |-> "none", state |-> INIT]

NoCall == [op |-> "none"]

NoRun == [resources |-> <<>>, debited |-> <<>>, skipped |-> <<>>, raised |-> "none"]

\* An empty pdf field; a document is named by its invoice and its rendering.
NoDocument == [invoice |-> 0, rendering |-> 0, valid |-> FALSE]

NoRender == [invoice |-> 0, err |-> FALSE, logged |-> FALSE, raised |-> FALSE,
             prior |-> NoDocument, document |-> NoDocument]

Init ==
    /\ used = {}
    /\ store = {}
    /\ payment = [p \in PaymentIds |-> NewRow(0)]
    /\ hist = [p \in PaymentIds |-> <<>>]
    /\ outcome = [p \in PaymentIds |-> NoOutcome]
    /\ now = 0
    /\ attempt = NoAttempt
    /\ inv_backend_id = [i \in InvoiceIds |-> ""]
    /\ triggered = [i \in InvoiceIds |-> 0]
    /\ pending = [i \in InvoiceIds |-> 0]
    /\ selected = {}
    /\ actor = [a \in Actors |-> Idle]
    /\ call = NoCall
    /\ debit = NoRun
    /\ invoice_pdf = [i \in InvoiceIds |-> NoDocument]
    /\ storage = {}
    /\ render = NoRender

\* payment.save() after a transition: the row takes the state.
SaveState(p, s) ==
    /\ payment' = [payment EXCEPT ![p].state = s]
    /\ hist' = [hist EXCEPT ![p] = IF s = payment[p].state THEN @ ELSE Append(@, s)]

(***************************************************************************)
(* A caller's request creates the Payment: a new row, in INIT, with the    *)
(* next primary key and created = now (TimeStampedModel).                  *)
(***************************************************************************)
NewPayment(p) ==
    /\ p \notin used
    /\ p = Cardinality(used) + 1
    /\ used' = used \cup {p}
    /\ store' = store \cup {p}
    /\ payment' = [payment EXCEPT ![p] = NewRow(now)]
    /\ hist' = [hist EXCEPT ![p] = <<INIT>>]
    /\ UNCHANGED <<outcome, now, attempt, invoice_vars, task_vars, actor>>

(***************************************************************************)
(* A call of one of the transition methods on a stored Payment, followed   *)
(* by save() when it did not raise: t is what the method answered.         *)
(***************************************************************************)
Attempted(p, name, t) ==
    /\ attempt' = [name |-> name, p |-> p, from |-> payment[p].state,
                   ok |-> t.ok, error |-> t.error]
    /\ SaveState(p, t.state)
    /\ UNCHANGED <<used, store, outcome, now, invoice_vars, task_vars, actor>>

SetCreated(p) ==
    /\ p \in store
    /\ Attempted(p, "set_created", set_created(payment[p].state))

SetApproved(p) ==
    /\ p \in store
    /\ Attempted(p, "set_approved", set_approved(payment[p].state))

SetCancelled(p) ==
    /\ p \in store
    /\ Attempted(p, "set_cancelled", set_cancelled(payment[p].state))

SetErred(p) ==
    /\ p \in store
    /\ Attempted(p, "set_erred", set_erred(payment[p].state))

NextFSM ==
    \/ \E p \in PaymentIds : NewPayment(p)
    \/ \E p \in PaymentIds : SetCreated(p)
    \/ \E p \in PaymentIds : SetApproved(p)
    \/ \E p \in PaymentIds : SetCancelled(p)
    \/ \E p \in PaymentIds : SetErred(p)

SpecFSM == Init /\ [][NextFSM]_vars

(***************************************************************************)
(* What the processor reported, read off its raw answer: a created payment *)
(* whose approval link carries a token; a found and executed payment.      *)
(***************************************************************************)
ProcessorCreated(resp) ==
    /\ resp.create = "ok"
    /\ \E i \in DOMAIN resp.links :
          /\ resp.links[i].rel = "approval_url"
          /\ \E j \in DOMAIN resp.links[i].href.query :
                /\ resp.links[i].href.query[j].k = "token"
                /\ resp.links[i].href.query[j].v # ""

ProcessorExecuted(resp) == resp.find = "found" /\ resp.execute = "ok"

(***************************************************************************)
(* The payment flow.  start: the adapter's make_payment; when it returns,  *)
(* the backend id, approval URL and token are stored and the Payment goes  *)
(* INIT -> CREATED; when it raises, the Payment goes to ERRED and the      *)
(* error is surfaced.                                                      *)
(***************************************************************************)
Start(p) ==
    /\ p \in store
    /\ outcome[p].start = "none"
    /\ \E resp \in CreateResponses :
          LET r == make_payment(resp)
              s == payment[p].state
              t == IF r.ok THEN set_created(s) ELSE set_erred(s)
          IN  /\ payment' = [payment EXCEPT ![p] =
                    [state |-> t.state,
                     backend_id |-> IF r.ok THEN r.payment_id ELSE @.backend_id,
                     token |-> IF r.ok THEN r.token ELSE @.token,
                     approval_url |-> IF r.ok THEN r.approval_url ELSE @.approval_url,
                     created |-> @.created]]
              /\ hist' = [hist EXCEPT ![p] = IF t.state = s THEN @ ELSE Append(@, t.state)]
              /\ outcome' = [outcome EXCEPT
                    ![p].start = IF r.ok THEN "ok" ELSE "error",
                    ![p].processor_start =
                        IF ProcessorCreated(resp) THEN "success" ELSE "failure"]
    /\ UNCHANGED <<used, store, now, attempt, invoice_vars, task_vars, actor>>

(***************************************************************************)
(* approve: needs the Payment in CREATED (the guard of set_approved);      *)
(* then the adapter's approve_payment; CREATED -> APPROVED when it         *)
(* returns, -> ERRED when it raises.  A refused request changes nothing.   *)
(***************************************************************************)
Approve(p) ==
    /\ p \in store
    /\ IF ~set_approved(payment[p].state).ok
       THEN UNCHANGED <<payment, hist, outcome>>
       ELSE \E resp \in ExecuteResponses :
               LET r == approve_payment(resp)
                   s == payment[p].state
                   t == IF r.ok THEN set_approved(s) ELSE set_erred(s)
               IN  /\ SaveState(p, t.state)
                   /\ outcome' = [outcome EXCEPT
                         ![p].approve = IF r.ok THEN "ok" ELSE "error",
                         ![p].processor_approve =
                             IF ProcessorExecuted(resp) THEN "success" ELSE "failure"]
    /\ UNCHANGED <<used, store, now, attempt, invoice_vars, task_vars, actor>>

(***************************************************************************)
(* cancel: set_cancelled and save; no backend call.                        *)
(***************************************************************************)
Cancel(p) ==
    /\ p \in store
    /\ SaveState(p, set_cancelled(payment[p].state).state)
    /\ UNCHANGED <<used, store, outcome, now, attempt, invoice_vars, task_vars, actor>>

(***************************************************************************)
(* PaymentsCleanUp.run: one DELETE of the rows the filter selects.         *)
(***************************************************************************)
PaymentsCleanUp_run ==
    /\ store' = { p \in store : ~is_stale(payment[p], now) }
    /\ UNCHANGED <<used, payment, hist, outcome, now, attempt, invoice_vars, task_vars, actor>>

Tick ==
    /\ now < MaxTime
    /\ now' = now + 1
    /\ UNCHANGED <<used, store, payment, hist, outcome, attempt, invoice_vars, task_vars, actor>>

Next ==
    \/ \E p \in PaymentIds : NewPayment(p)
    \/ \E p \in PaymentIds : Start(p)
    \/ \E p \in PaymentIds : Approve(p)
    \/ \E p \in PaymentIds : Cancel(p)
    \/ PaymentsCleanUp_run
    \/ Tick

Spec == Init /\ [][Next]_vars

(***************************************************************************)
(* SendInvoices.run: the invoices with an empty backend_id are selected    *)
(* and InvoiceCreateExecutor.execute is called on each of them.            *)
(***************************************************************************)
SendInvoices_run ==
    LET new == new_invoices(inv_backend_id)
    IN  /\ \A i \in new : triggered[i] < MaxTriggers
        /\ selected' = new
        /\ triggered' = [i \in InvoiceIds |-> triggered[i] + IF i \in new THEN 1 ELSE 0]
        /\ pending' = [i \in InvoiceIds |-> pending[i] + IF i \in new THEN 1 ELSE 0]
        /\ UNCHANGED <<inv_backend_id, payment_vars, task_vars, attempt, actor>>

(***************************************************************************)
(* A triggered creation of an invoice ends: the document is generated and  *)
(* the invoice created upstream, which sets its backend_id; or it fails    *)
(* and the backend_id stays as it was.                                     *)
(***************************************************************************)
InvoiceCreateExecutor_done(i) ==
    /\ pending[i] > 0
    /\ pending' = [pending EXCEPT ![i] = @ - 1]
    /\ \E created \in BOOLEAN :
          inv_backend_id' = [inv_backend_id EXCEPT ![i] = IF created THEN "INV" ELSE @]
    /\ UNCHANGED <<triggered, selected, payment_vars, task_vars, attempt, actor>>

NextInvoices ==
    \/ SendInvoices_run
    \/ \E i \in InvoiceIds : InvoiceCreateExecutor_done(i)

SpecInvoices == Init /\ [][NextInvoices]_vars

(***************************************************************************)
(* Two requests on the same Payment, each working on the instance it       *)
(* loaded: Load reads the row, Transit calls the transition method on the  *)
(* instance (approve after the adapter's approve_payment), Save writes     *)
(* the instance back.  Payment is a plain model with an FSMIntegerField:   *)
(* the guard reads the instance and save() writes whatever it holds.       *)
(***************************************************************************)
Load(a, p, op) ==
    /\ actor[a].pc = "idle"
    /\ p \in store
    /\ actor' = [actor EXCEPT ![a] =
          [pc |-> "loaded", p |-> p, op |-> op, state |-> payment[p].state]]
    /\ UNCHANGED <<payment_vars, attempt, invoice_vars, task_vars>>

Transit(a) ==
    /\ actor[a].pc = "loaded"
    /\ LET s == actor[a].state
           p == actor[a].p
       IN  IF actor[a].op = "cancel"
           THEN LET t == set_cancelled(s)
                IN  /\ actor' = [actor EXCEPT ![a] =
                          IF t.ok THEN [@ EXCEPT !.pc = "dirty", !.state = t.state]
                          ELSE Idle]
                    /\ UNCHANGED outcome
           ELSE IF ~set_approved(s).ok
                THEN actor' = [actor EXCEPT ![a] = Idle] /\ UNCHANGED outcome
                ELSE \E resp \in ExecuteResponses :
                        LET r == approve_payment(resp)
                            t == IF r.ok THEN set_approved(s) ELSE set_erred(s)
                        IN  /\ actor' = [actor EXCEPT ![a] =
                                  [@ EXCEPT !.pc = "dirty", !.state = t.state]]
                            /\ outcome' = [outcome EXCEPT
                                  ![p].approve = IF r.ok THEN "ok" ELSE "error",
                                  ![p].processor_approve =
                                      IF ProcessorExecuted(resp) THEN "success"
                                      ELSE "failure"]
    /\ UNCHANGED <<used, store, payment, hist, now, attempt, invoice_vars, task_vars>>

Save(a) ==
    /\ actor[a].pc = "dirty"
    /\ SaveState(actor[a].p, actor[a].state)
    /\ actor' = [actor EXCEPT ![a] = Idle]
    /\ UNCHANGED <<used, store, outcome, now, attempt, invoice_vars, task_vars>>

NextRace ==
    \/ \E p \in PaymentIds : NewPayment(p)
    \/ \E p \in PaymentIds : Start(p)
    \/ \E a \in Actors, p \in PaymentIds, op \in {"approve", "cancel"} : Load(a, p, op)
    \/ \E a \in Actors : Transit(a)
    \/ \E a \in Actors : Save(a)

SpecRace == Init /\ [][NextRace]_vars

(***************************************************************************)
(* Calls of the backend adapter, each with arguments and processor answers *)
(* drawn from the sets above; call records the whole of it.                *)
(***************************************************************************)
NoDates == [start_date |-> 0, end_date |-> 0]

Called(op, args, resp, sent, dates, result) ==
    /\ call' = [op |-> op, args |-> args, resp |-> resp, sent |-> sent,
                dates |-> dates, result |-> result]
    /\ UNCHANGED <<payment_vars, attempt, invoice_vars, actor,
                   debit, invoice_pdf, storage, render>>

\* The query strings of the approval URLs _find_token is called with.
MaxParams == 2

Params ==
    { Param("token", "EC-1"), Param("token", "EC-2"), Param("token", ""),
      Param("foo", "bar") }

Queries == UNION { [1..n -> Params] : n \in 0..MaxParams }

FindToken ==
    /\ call = NoCall
    /\ \E query \in Queries :
          Called("_find_token", [approval_url |-> ApproveUrl(query)], [none |-> None],
                 <<>>, NoDates, _find_token(ApproveUrl(query)))

MakePayment ==
    /\ call = NoCall
    /\ \E resp \in CreateResponses :
          Called("make_payment", [none |-> None], resp,
                 <<Request("payment.create", None)>>, NoDates, make_payment(resp))

ApprovePayment ==
    /\ call = NoCall
    /\ \E resp \in ExecuteResponses :
          Called("approve_payment", [payment_id |-> "PAY-1"], resp,
                 IF resp.find = "found"
                 THEN <<Request("Payment.find", "PAY-1"), Request("payment.execute", "PAY-1")>>
                 ELSE <<Request("Payment.find", "PAY-1")>>,
                 NoDates, approve_payment(resp))

CreatePlan ==
    /\ call = NoCall
    /\ \E resp \in PlanResponses :
          LET c == create_plan(resp)
          IN  Called("create_plan", [none |-> None], resp, c.sent, NoDates, c.result)

CreateAgreement ==
    /\ call = NoCall
    /\ \E resp \in CreateResponses :
          Called("create_agreement", [plan_id |-> "P-1"], resp,
                 <<Request("agreement.create", None)>>, NoDates, create_agreement(resp))

ExecuteAgreement ==
    /\ call = NoCall
    /\ \E resp \in ExecuteAgreementResponses :
          Called("execute_agreement", [payment_token |-> "EC-1"], resp,
                 <<Request("BillingAgreement.execute", "EC-1")>>, NoDates,
                 execute_agreement(resp))

GetAgreement ==
    /\ call = NoCall
    /\ \E id \in AgreementIds, find \in FindResponses :
          Called("get_agreement", [agreement_id |-> id], [find |-> find],
                 <<Request("BillingAgreement.find", id)>>, NoDates,
                 get_agreement(id, find))

CancelAgreement ==
    /\ call = NoCall
    /\ \E id \in AgreementIds, find \in FindResponses, cancel \in CancelResponses :
          LET c == cancel_agreement(id, find, cancel)
          IN  Called("cancel_agreement", [agreement_id |-> id],
                     [find |-> find, cancel |-> cancel], c.sent, NoDates, c.result)

\* The clock is read only when no end date is given.
GetAgreementTransactions ==
    /\ call = NoCall
    /\ \E id \in AgreementIds, start_date \in Dates, end_date \in Dates \cup {NoEnd},
          clock \in Dates, find \in FindResponses, search \in SearchResponses :
          /\ end_date # NoEnd => clock = 0
          /\ LET t == get_agreement_transactions(id, start_date, end_date, clock,
                                                 find, search)
             IN  Called("get_agreement_transactions",
                        [agreement_id |-> id, start_date |-> start_date,
                         end_date |-> end_date, clock |-> clock],
                        [find |-> find, search |-> search],
                        t.sent, t.dates, t.result)

NextBackend ==
    \/ FindToken
    \/ MakePayment
    \/ ApprovePayment
    \/ CreatePlan
    \/ CreateAgreement
    \/ ExecuteAgreement
    \/ GetAgreement
    \/ CancelAgreement
    \/ GetAgreementTransactions

SpecBackend == Init /\ [][NextBackend]_vars

(***************************************************************************)
(* A run of DebitCustomers over the resources of the supported services.   *)
(***************************************************************************)
DebitCustomers_run ==
    /\ debit = NoRun
    /\ \E resources \in ResourceLists :
          debit' = DebitCustomers_loop(resources, 1, [NoRun EXCEPT !.resources = resources])
    /\ UNCHANGED <<payment_vars, attempt, invoice_vars, actor, call,
                   invoice_pdf, storage, render>>

NextDebit == DebitCustomers_run

SpecDebit == Init /\ [][NextDebit]_vars

(***************************************************************************)
(* A call of generate_pdf on invoice i.                                    *)
(***************************************************************************)
GeneratePdf(i) ==
    /\ invoice_pdf[i].rendering < MaxRenders
    /\ \E err \in BOOLEAN :
          LET r == generate_pdf(i, invoice_pdf[i], err)
          IN  /\ storage' = (storage \ {r.prior}) \cup {r.document}
              /\ invoice_pdf' = [invoice_pdf EXCEPT ![i] = r.document]
              /\ render' = r
    /\ UNCHANGED <<payment_vars, attempt, invoice_vars, actor, call, debit>>

NextPdf == \E i \in InvoiceIds : GeneratePdf(i)

SpecPdf == Init /\ [][NextPdf]_vars

(***************************************************************************)
(* C1.  For each guarded transition (set_created from INIT, set_approved   *)
(* from CREATED, set_cancelled from CREATED): a call made while the        *)
(* Payment is in another state than the declared source ends with the      *)
(* invalid-transition error and leaves the state as it was; a call made    *)
(* in the declared source succeeds and leaves the Payment in the declared  *)
(* target.                                                                 *)
(***************************************************************************)
C1_Declared ==
    [set_created |-> [source |-> INIT, target |-> CREATED],
     set_approved |-> [source |-> CREATED, target |-> APPROVED],
     set_cancelled |-> [source |-> CREATED, target |-> CANCELLED]]

C1_GuardedTransitions ==
    attempt.name \in DOMAIN C1_Declared =>
        LET d == C1_Declared[attempt.name]
            after == payment[attempt.p].state
        IN  IF attempt.from = d.source
            THEN attempt.ok /\ after = d.target
            ELSE /\ ~attempt.ok
                 /\ attempt.error = "TransitionNotAllowed"
                 /\ after = attempt.from

C1_Witness ==
    /\ attempt.name = "set_cancelled"
    /\ attempt.from = APPROVED
    /\ ~attempt.ok
    /\ \E q \in store : hist[q] = <<INIT, CREATED, CANCELLED>>

(***************************************************************************)
(* C2, as stated.  APPROVED, CANCELLED and ERRED are terminal: a Payment   *)
(* in one of them has the same state after every step.                     *)
(***************************************************************************)
C2_TerminalAsStated ==
    [][\A p \in store :
          payment[p].state \in {APPROVED, CANCELLED, ERRED}
              => payment'[p].state = payment[p].state]_vars

(***************************************************************************)
(* C2, amended.  ERRED is terminal; a Payment in APPROVED or CANCELLED     *)
(* keeps its state under every guarded transition and can leave it only    *)
(* for ERRED (set_erred is declared from every state).                     *)
(***************************************************************************)
C2_Terminal ==
    [][\A p \in store :
          /\ payment[p].state = ERRED => payment'[p].state = ERRED
          /\ payment[p].state \in {APPROVED, CANCELLED}
                => payment'[p].state \in {payment[p].state, ERRED}
          /\ (payment[p].state \in {APPROVED, CANCELLED}
                /\ payment'[p].state = ERRED) => attempt'.name = "set_erred"]_vars

C2_Witness ==
    /\ attempt.name = "set_created"
    /\ attempt.from = ERRED
    /\ ~attempt.ok
    /\ hist[attempt.p] = <<INIT, CREATED, APPROVED, ERRED>>

(***************************************************************************)
(* C3.  When the processor reports success for the creation (with an       *)
(* approval link that carries a token) and for the execution, a Payment    *)
(* driven by start and then approve has held exactly INIT, CREATED,        *)
(* APPROVED, in that order; and between the two calls it has held INIT,    *)
(* CREATED and never ERRED.                                                *)
(***************************************************************************)
C3_StartThenApprove ==
    \A p \in used :
        /\ (outcome[p].processor_start = "success"
              /\ outcome[p].processor_approve = "success")
              => hist[p] = <<INIT, CREATED, APPROVED>>
        /\ (outcome[p].processor_start = "success"
              /\ outcome[p].processor_approve = "none")
              => /\ SubSeq(hist[p], 1, 2) = <<INIT, CREATED>>
                 /\ \A i \in DOMAIN hist[p] : hist[p][i] # ERRED

C3_Witness ==
    \E p \in store :
        /\ outcome[p].processor_start = "success"
        /\ outcome[p].processor_approve = "success"
        /\ payment[p].state = APPROVED
        /\ hist[p] = <<INIT, CREATED, APPROVED>>

(***************************************************************************)
(* C4.  Once a backend call made for a Payment has failed (the creation    *)
(* during start, the execution during approve), the Payment is stored in   *)
(* ERRED: none stays in INIT after a failed start or in CREATED after a    *)
(* failed approve; and set_erred is allowed from every state.              *)
(***************************************************************************)
C4_FailureRecorded ==
    /\ \A p \in used :
          (\/ outcome[p].start = "error"
           \/ outcome[p].approve = "error"
           \/ outcome[p].processor_start = "failure"
           \/ outcome[p].processor_approve = "failure")
              => p \in store /\ payment[p].state = ERRED
    /\ \A s \in States : set_erred(s).ok /\ set_erred(s).state = ERRED

C4_Witness ==
    \E p \in store, q \in store :
        /\ outcome[p].approve = "error"
        /\ hist[p] = <<INIT, CREATED, ERRED>>
        /\ outcome[q].start = "error"
        /\ hist[q] = <<INIT, ERRED>>

(***************************************************************************)
(* C5.  A stored Payment in INIT has no backend id, approval URL or token; *)
(* one that has a backend id or an approval URL had its creation succeed   *)
(* at the processor; one in CREATED or APPROVED has as its token the first *)
(* non-empty token parameter of its approval URL; and a returned           *)
(* make_payment left all three of backend id, approval URL and token, a    *)
(* raised one none of them.                                                *)
(***************************************************************************)
C5_TokenOf(url, token) ==
    \E j \in DOMAIN url.query :
        /\ url.query[j].k = "token"
        /\ url.query[j].v = token
        /\ token # ""
        /\ \A i \in 1..(j - 1) : ~(url.query[i].k = "token" /\ url.query[i].v # "")

C5_CreationComplete ==
    \A p \in store :
        LET row == payment[p]
            blank == row.backend_id = None /\ row.approval_url = EmptyUrl
                        /\ row.token = None
            full == row.backend_id # None /\ row.approval_url # EmptyUrl
                        /\ row.token # None
        IN  /\ row.state = INIT => blank
            /\ (row.backend_id # None \/ row.approval_url # EmptyUrl)
                  => outcome[p].processor_start = "success"
            /\ row.state \in {CREATED, APPROVED}
                  => C5_TokenOf(row.approval_url, row.token)
            /\ outcome[p].start = "ok" => full
            /\ outcome[p].start = "error" => blank

C5_Witness ==
    \E p \in store, q \in store :
        /\ payment[p].state = APPROVED
        /\ payment[p].token = "EC-2"
        /\ payment[q].state = CREATED
        /\ payment[q].token = "EC-3"

(***************************************************************************)
(* C7.  Cleanup deletes no Payment whose state is not CREATED, whatever    *)
(* its age, in every interleaving of cleanup runs with the payment flows:  *)
(* a Payment that has been APPROVED or CANCELLED is in the table ever      *)
(* after, only a CREATED Payment ever leaves the table, and a cleanup run  *)
(* leaves every row it does not delete as it was.                          *)
(***************************************************************************)
C7_CleanupSparesOthers ==
    /\ [](\A p \in used :
            (\E i \in DOMAIN hist[p] : hist[p][i] \in {APPROVED, CANCELLED})
                => p \in store)
    /\ [][\A p \in store : p \notin store' => payment[p].state = CREATED]_vars
    /\ [][PaymentsCleanUp_run =>
            /\ \A p \in store : payment[p].state # CREATED => p \in store'
            /\ \A p \in store' : p \in store /\ payment'[p] = payment[p]]_vars

C7_Witness ==
    \E p \in store, q \in used \ store :
        /\ p < q
        /\ payment[p].state \in {APPROVED, CANCELLED}
        /\ payment[p].created + STALE_PAYMENTS_LIFETIME < now

(***************************************************************************)
(* C8, as stated.  A cleanup run deletes a CREATED Payment if and only if  *)
(* its creation time is older than the staleness window at the time of     *)
(* the run.                                                                *)
(***************************************************************************)
C8_OlderThanWindow ==
    [][PaymentsCleanUp_run =>
          \A p \in store :
              p \notin store'
                  <=> (payment[p].state = CREATED
                        /\ now - payment[p].created > STALE_PAYMENTS_LIFETIME)]_vars

(***************************************************************************)
(* C8, amended.  A cleanup run deletes a Payment if and only if it is      *)
(* CREATED and its creation time is at or before the time of the run less  *)
(* the staleness window (its age is at least the window); a run in which   *)
(* no Payment qualifies changes nothing.                                   *)
(***************************************************************************)
C8_AtLeastWindow ==
    [][PaymentsCleanUp_run =>
          /\ \A p \in store :
                p \notin store'
                    <=> (payment[p].state = CREATED
                          /\ now - payment[p].created >= STALE_PAYMENTS_LIFETIME)
          /\ (\A p \in store :
                ~(payment[p].state = CREATED
                    /\ now - payment[p].created >= STALE_PAYMENTS_LIFETIME))
                => UNCHANGED vars]_vars

C8_Witness ==
    \E p \in store, q \in used \ store :
        /\ payment[q].created + STALE_PAYMENTS_LIFETIME = now
        /\ payment[p].state = CREATED
        /\ payment[p].created = now

(***************************************************************************)
(* C6.  Concurrent transition attempts on one Payment are serialized: of   *)
(* an approve and a cancel that both read the Payment in CREATED at most   *)
(* one is committed, so no Payment is recorded both as APPROVED and as     *)
(* CANCELLED over its history.                                             *)
(***************************************************************************)
C6_AtMostOneCommitted ==
    \A p \in used :
        ~(/\ \E i \in DOMAIN hist[p] : hist[p][i] = APPROVED
          /\ \E i \in DOMAIN hist[p] : hist[p][i] = CANCELLED)

(***************************************************************************)
(* C9.  A dispatch run selects exactly the invoices whose backend_id is    *)
(* empty and triggers the creation of exactly those; and once an invoice   *)
(* has a backend_id it keeps one and its creation is never triggered       *)
(* again.                                                                  *)
(***************************************************************************)
C9_SelectsEmptyOnly ==
    /\ [][SendInvoices_run =>
            /\ selected' = { i \in InvoiceIds : inv_backend_id[i] = "" }
            /\ \A i \in InvoiceIds :
                  triggered'[i] = triggered[i] + IF inv_backend_id[i] = "" THEN 1 ELSE 0]_vars
    /\ [][\A i \in InvoiceIds :
            inv_backend_id[i] # ""
                => /\ inv_backend_id'[i] # ""
                   /\ triggered'[i] = triggered[i]]_vars

C9_Witness ==
    \E i \in InvoiceIds, j \in InvoiceIds :
        /\ inv_backend_id[i] # ""
        /\ triggered[i] = 1
        /\ triggered[j] = 2
        /\ selected = {j}

(***************************************************************************)
(* C10.  Over any sequence of dispatch runs, runs that start before an     *)
(* earlier dispatch has completed and dispatches that fail included, the   *)
(* creation of an invoice is triggered at most once.                       *)
(***************************************************************************)
C10_TriggeredOnce == \A i \in InvoiceIds : triggered[i] <= 1

(***************************************************************************)
(* C20.  Every state a Payment reaches through its transitions is one of   *)
(* the states of Payment.STATE_CHOICES, so it has a declared label.        *)
(***************************************************************************)
C20_StatesHaveLabels ==
    \A p \in store : \E choice \in STATE_CHOICES : choice[1] = payment[p].state

(***************************************************************************)
(* C11, as stated.  When the processor returns nothing for the agreement   *)
(* id, get_agreement fails with a not-found error of another kind than     *)
(* the backend failure (what a failed connection ends in).                 *)
(***************************************************************************)
C11_NotFoundKind ==
    (call.op = "get_agreement" /\ call.resp.find = "empty")
        => /\ ~call.result.ok
           /\ call.result.error = "NotFound"
           /\ call.result.error # get_agreement(call.args.agreement_id, "conn").error

(***************************************************************************)
(* C11, amended.  get_agreement never returns an empty result: when the    *)
(* processor returns nothing the call fails with the adapter's one error   *)
(* kind, PayPalError, with the message 'Agreement not found'; when the     *)
(* processor returns a record, that record is returned.                    *)
(***************************************************************************)
C11_NeverEmpty ==
    call.op = "get_agreement" =>
        /\ call.resp.find = "empty"
              => /\ ~call.result.ok
                 /\ call.result.error = "PayPalError"
                 /\ call.result.message = "Agreement not found"
        /\ call.resp.find = "found"
              => /\ call.result.ok
                 /\ call.result.value = [id |-> call.args.agreement_id]
        /\ call.result.ok => call.resp.find = "found"

C11_Witness ==
    /\ call.op = "get_agreement"
    /\ call.resp.find = "empty"
    /\ ~call.result.ok

(***************************************************************************)
(* C16.  cancel_agreement sends the cancel request only after the lookup   *)
(* of the same agreement id has succeeded: when the lookup returns nothing *)
(* or fails, no cancel request is sent and the call fails; and every       *)
(* cancel request carries the application's note.                          *)
(***************************************************************************)
C16_CancelAfterLookup ==
    call.op = "cancel_agreement" =>
        /\ \A i \in DOMAIN call.sent :
              call.sent[i].req = "agreement.cancel"
                  => /\ call.resp.find = "found"
                     /\ \E j \in 1..(i - 1) :
                           /\ call.sent[j].req = "BillingAgreement.find"
                           /\ call.sent[j].id = call.sent[i].id
                     /\ call.sent[i].id = call.args.agreement_id
                     /\ call.sent[i].note = "Canceling the agreement by application"
        /\ call.resp.find # "found"
              => /\ ~call.result.ok
                 /\ \A i \in DOMAIN call.sent : call.sent[i].req # "agreement.cancel"

\* The lookup found the agreement and the cancel request went out after it.
C16_Witness ==
    /\ call.op = "cancel_agreement"
    /\ call.resp.find = "found"
    /\ Len(call.sent) = 2
    /\ call.sent[2].req = "agreement.cancel"
    /\ call.sent[2].note = "Canceling the agreement by application"
    /\ call.result.ok

(***************************************************************************)
(* C12.  Every adapter operation ends in its normal result or in a         *)
(* PayPalError that carries a message, whatever the processor answered:    *)
(* no error of another kind leaves the adapter, and a call that returns    *)
(* returns its whole result (the ids, URL and token it is to return are    *)
(* there).                                                                 *)
(***************************************************************************)
C12_NormalOrBackendError ==
    call.op \in {"make_payment", "approve_payment", "create_plan", "create_agreement",
                 "execute_agreement", "get_agreement", "cancel_agreement",
                 "get_agreement_transactions"}
    => LET r == call.result
       IN  /\ r.ok \/ (r.error = "PayPalError" /\ r.message # "")
           /\ r.ok /\ call.op = "make_payment"
                 => r.payment_id # None /\ r.approval_url # EmptyUrl /\ r.token # None
           /\ r.ok /\ call.op = "create_agreement"
                 => r.approval_url # EmptyUrl /\ r.token # None
           /\ r.ok /\ call.op \in {"create_plan", "execute_agreement"}
                 => r.value # None
           /\ r.ok /\ call.op = "get_agreement" => r.value.id # None

(***************************************************************************)
(* C13.  In a transaction search the start date is the given one; the end  *)
(* date is the given end date, or the current time when none is given,     *)
(* plus one day if it is less than one day after the start date and as it  *)
(* is otherwise; and the search request carries these two dates,           *)
(* formatted.                                                              *)
(***************************************************************************)
C13_EndDateRule ==
    call.op = "get_agreement_transactions"
    => LET a == call.args
           given == IF a.end_date = NoEnd THEN a.clock ELSE a.end_date
       IN  /\ call.dates.start_date = a.start_date
           /\ given - a.start_date < DAY => call.dates.end_date = given + DAY
           /\ given - a.start_date >= DAY => call.dates.end_date = given
           /\ \A i \in DOMAIN call.sent :
                 call.sent[i].req = "agreement.search_transactions"
                 => /\ call.sent[i].start_date = strftime_date(a.start_date)
                    /\ call.sent[i].end_date = strftime_date(call.dates.end_date)

\* No end date given, the clock half a day after the start: one day is added.
C13_Witness ==
    /\ call.op = "get_agreement_transactions"
    /\ call.args.start_date = 2
    /\ call.args.end_date = NoEnd
    /\ call.args.clock = 3
    /\ call.dates.end_date = 5
    /\ Len(call.sent) = 2
    /\ call.sent[2].end_date = 2

(***************************************************************************)
(* C14.  A transaction search that the processor answers with a result     *)
(* returns the transactions of the answer whose status is "Completed", in  *)
(* the answer's order, each as its parsed time stamp, its transaction id,  *)
(* its amount as a decimal and its payer email; the others are dropped and *)
(* an empty or absent list gives an empty result.                          *)
(***************************************************************************)
RECURSIVE C14_Surfaced(_)
C14_Surfaced(txs) ==
    IF txs = <<>> THEN <<>>
    ELSE LET tx == Head(txs)
             rest == C14_Surfaced(Tail(txs))
         IN  IF tx.status = "Completed"
             THEN <<[time_stamp |-> dateutil_parse(tx.time_stamp),
                     transaction_id |-> tx.transaction_id,
                     amount |-> Decimal(tx.amount.value),
                     payer_email |-> tx.payer_email]>> \o rest
             ELSE rest

C14_OnlyCompleted ==
    /\ call.op = "get_agreement_transactions"
    /\ call.resp.find = "found"
    /\ call.resp.search.search = "result"
    => /\ call.result.ok
       /\ call.result.value =
             IF call.resp.search.has_list
             THEN C14_Surfaced(call.resp.search.txs) ELSE <<>>

\* Completed, Pending, Completed gives the first and the third.
C14_Witness ==
    /\ call.op = "get_agreement_transactions"
    /\ call.resp.find = "found"
    /\ call.resp.search.has_list
    /\ Len(call.resp.search.txs) = 3
    /\ call.resp.search.txs[1].transaction_id = "T-1"
    /\ call.resp.search.txs[2].transaction_id = "T-2"
    /\ call.resp.search.txs[3].transaction_id = "T-3"
    /\ Len(call.result.value) = 2
    /\ call.result.value[1].amount = 1000
    /\ call.result.value[2].transaction_id = "T-3"
    /\ call.result.value[2].time_stamp = 3

(***************************************************************************)
(* C15.  _find_token returns the first non-empty token parameter of the    *)
(* approval URL, whatever other parameters there are, and raises           *)
(* PayPalError "Unable to parse token from approval_url" exactly when the  *)
(* URL has none; make_payment and create_agreement return the token so     *)
(* extracted from the approval URL they return, and fail with that error   *)
(* when the processor's approval URL has no non-empty token.               *)
(***************************************************************************)
C15_HasToken(url) ==
    \E j \in DOMAIN url.query : url.query[j].k = "token" /\ url.query[j].v # ""

C15_FirstOf(url, token) ==
    \E j \in DOMAIN url.query :
        /\ url.query[j] = Param("token", token)
        /\ token # ""
        /\ \A i \in 1..(j - 1) : url.query[i].k # "token" \/ url.query[i].v = ""

C15_FirstNonEmptyToken ==
    LET r == call.result
    IN  /\ call.op = "_find_token"
           => /\ r.ok <=> C15_HasToken(call.args.approval_url)
              /\ r.ok => C15_FirstOf(call.args.approval_url, r.token)
              /\ ~r.ok => /\ r.error = "PayPalError"
                          /\ r.message = "Unable to parse token from approval_url"
        /\ call.op \in {"make_payment", "create_agreement"} /\ call.resp.create = "ok"
           => /\ r.ok => C15_FirstOf(r.approval_url, r.token)
              /\ \A i \in DOMAIN call.resp.links :
                    /\ call.resp.links[i].rel = "approval_url"
                    /\ \A h \in 1..(i - 1) : call.resp.links[h].rel # "approval_url"
                    => /\ r.ok <=> C15_HasToken(call.resp.links[i].href)
                       /\ r.ok => r.approval_url = call.resp.links[i].href
                       /\ ~r.ok => r.message = "Unable to parse token from approval_url"

\* A blank token parameter before the one returned.
C15_Witness ==
    /\ call.op = "_find_token"
    /\ call.args.approval_url.query = <<Param("token", ""), Param("token", "EC-2")>>
    /\ call.result.ok
    /\ call.result.token = "EC-2"

(***************************************************************************)
(* C19, as stated.  The formatted end date of every search request is a    *)
(* later day than its formatted start date, for every start date and       *)
(* every given or defaulted end date.                                      *)
(***************************************************************************)
C19_LaterDay ==
    call.op = "get_agreement_transactions"
    => \A i \in DOMAIN call.sent :
          call.sent[i].req = "agreement.search_transactions"
          => call.sent[i].end_date > call.sent[i].start_date

(***************************************************************************)
(* C19.  The formatted end date of a search request is a later day than    *)
(* its formatted start date whenever the given or defaulted end date is    *)
(* not earlier than the start date.                                        *)
(***************************************************************************)
C19_LaterDayWhenOrdered ==
    /\ call.op = "get_agreement_transactions"
    /\ (IF call.args.end_date = NoEnd THEN call.args.clock ELSE call.args.end_date)
           >= call.args.start_date
    => \A i \in DOMAIN call.sent :
          call.sent[i].req = "agreement.search_transactions"
          => call.sent[i].end_date > call.sent[i].start_date

\* Start and end the same instant: the request is for that day to the next.
C19_Witness ==
    /\ call.op = "get_agreement_transactions"
    /\ call.args.start_date = 2
    /\ call.args.end_date = 2
    /\ Len(call.sent) = 2
    /\ call.sent[2].start_date = 1
    /\ call.sent[2].end_date = 2

(***************************************************************************)
(* C17.  A run of DebitCustomers debits every shared resource whose cost   *)
(* can be computed and skips every shared resource that does not support   *)
(* cost computation, whatever happens at the other resources of the batch. *)
(***************************************************************************)
C17_BatchNotAborted ==
    LET InSeq(i, s) == \E k \in DOMAIN s : s[k] = i
    IN  \A i \in DOMAIN debit.resources :
              LET resource == debit.resources[i]
              IN  /\ resource.shared /\ resource.get_cost = "cost"
                        /\ resource.debit_account = "ok"
                     => InSeq(i, debit.debited)
                  /\ resource.shared /\ resource.get_cost = "NotImplementedError"
                     => InSeq(i, debit.skipped) /\ ~InSeq(i, debit.debited)

(***************************************************************************)
(* C18.  After a generate_pdf whose rendering reported an error, the error *)
(* was logged and not raised and the invoice has no stored document; after *)
(* one whose rendering succeeded, the invoice's pdf field names the new    *)
(* document, which is in the storage, and the prior document is not.       *)
(***************************************************************************)
C18_ErrorLeavesNoDocument ==
    render # NoRender
    => /\ render.err
          => /\ render.logged
             /\ ~render.raised
             /\ invoice_pdf[render.invoice] = NoDocument
             /\ \A d \in storage : d.invoice # render.invoice
       /\ ~render.err
          => /\ invoice_pdf[render.invoice] = render.document
             /\ render.document \in storage
             /\ render.prior \notin storage
             /\ \A d \in storage : d.invoice = render.invoice => d = render.document

(***************************************************************************)
(* C21.  create_plan returns a plan id exactly when the processor both     *)
(* created and activated the plan, and the id is that plan's; when either  *)
(* step fails (rejected or connection lost) the call ends in PayPalError   *)
(* and returns no id; and plan.activate is sent only after a plan.create   *)
(* that succeeded.                                                         *)
(***************************************************************************)
C21_IdOnlyOfActivePlan ==
    call.op = "create_plan"
    => LET r == call.result
           activation == { i \in DOMAIN call.sent : call.sent[i].req = "plan.activate" }
       IN  /\ r.ok <=> (call.resp.create = "ok" /\ call.resp.activate = "ok")
           /\ r.ok => r.value = call.resp.id /\ r.value # None
           /\ ~r.ok => /\ r.error = "PayPalError"
                       /\ r.message # ""
                       /\ r.value = None
           /\ \A i \in activation :
                 /\ call.resp.create = "ok"
                 /\ \E j \in 1..(i - 1) : call.sent[j].req = "plan.create"
           /\ call.resp.create # "ok" => activation = {}
           /\ call.resp.create = "ok" => activation # {}

\* The plan was created and its activation rejected: no id is returned.
C21_Witness ==
    /\ call.op = "create_plan"
    /\ call.resp.create = "ok"
    /\ call.resp.activate = "fail"
    /\ Len(call.sent) = 2
    /\ call.sent[2].req = "plan.activate"
    /\ ~call.result.ok
    /\ call.result.value = None

====
